---- MODULE Spec2Model ----
(***************************************************************************)
(* Model of src/utils.py: five preprocessing helpers over a pandas         *)
(* DataFrame.  A DataFrame is a record [index, cols]: index is the row     *)
(* count, cols the ordered sequence of columns [name, dtype, values].      *)
(* DataFrames are objects: heap is the sequence of DataFrame objects that  *)
(* exist, a reference is a position in heap, and heap[1] is the caller's   *)
(* table.  Each action is one call of one function on heap[1].             *)
(*                                                                         *)
(* Numbers.  Cell values are integers; the values of an object column are  *)
(* integers standing for strings in their sort order.  A float is an exact *)
(* fraction [num, den] with den >= 0, and den = 0 is NaN.  A correlation   *)
(* coefficient is kept as [num, den2], standing for num / sqrt(den2),      *)
(* and den2 = 0 is NaN.  Every comparison with NaN is false.               *)
(***************************************************************************)
EXTENDS Integers, Sequences, FiniteSets

VARIABLES heap, fn, threshold, categorical_columns, ret

vars == <<heap, fn, threshold, categorical_columns, ret>>

\* The missing marker (None / NaN), the value isnull() answers True for.
NA == -1

------------------------------------------------------------------------------
(* Bounds of the input domains.                                            *)

MaxColsMissing == 2
MaxRowsMissing == 4
MaxColsSplit == 3
MaxColsEncode == 2
MaxListEncode == 2
MaxColsCorr == 3

ColumnNames == <<"A", "B", "C", "D", "E">>

------------------------------------------------------------------------------
(* Generic helpers.                                                        *)

Range(s) == {s[i] : i \in DOMAIN s}

RECURSIVE SumSeq(_)
SumSeq(s) == IF s = <<>> THEN 0 ELSE Head(s) + SumSeq(Tail(s))

Abs(x) == IF x < 0 THEN -x ELSE x

RECURSIVE Gcd(_, _)
Gcd(a, b) == IF b = 0 THEN a ELSE Gcd(b, a % b)

\* Python's true division of two non-negative integers: a float, 0/0 = NaN.
TrueDiv(a, b) ==
    IF b = 0 THEN [num |-> 0, den |-> 0]
    ELSE LET g == Gcd(a, b) IN [num |-> a \div g, den |-> b \div g]

\* float * int
Times(x, k) ==
    IF x.den = 0 THEN x
    ELSE LET g == Gcd(x.num * k, x.den)
         IN  [num |-> (x.num * k) \div g, den |-> x.den \div g]

\* float > float; False when either side is NaN
FloatGt(x, t) == x.den # 0 /\ t.den # 0 /\ x.num * t.den > t.num * x.den

------------------------------------------------------------------------------
(* DataFrame primitives.                                                   *)

\* dataframe.columns
columns(df) == [i \in DOMAIN df.cols |-> df.cols[i].name]

\* len(dataframe)
len(df) == df.index

\* Mutant of isnull_sum: notnull() in place of isnull().
isnull_sum_notnull(df) ==
    [i \in DOMAIN df.cols |->
        Cardinality({r \in DOMAIN df.cols[i].values : df.cols[i].values[r] # NA})]

\* dataframe.isnull().sum(): per column, the number of missing cells
isnull_sum(df) ==
    [i \in DOMAIN df.cols |->
        Cardinality({r \in DOMAIN df.cols[i].values : df.cols[i].values[r] = NA})]

\* dataframe.drop(columns=names): a new object without the named columns
drop(h, ref, names) ==
    LET df == h[ref]
        kept == SelectSeq(df.cols, LAMBDA c : c.name \notin names)
    IN  [heap |-> Append(h, [index |-> df.index, cols |-> kept]),
         ref  |-> Len(h) + 1]

NoMissingValues == "There are no missing values in the DataFrame."

------------------------------------------------------------------------------
(* find_missing_values                                                     *)

\* Mutant of find_missing_values: the Total > 0 filter is left out.
find_missing_values_unfiltered(h, dataframe) ==
    LET df == h[dataframe]
        total_missing == isnull_sum(df)
    IN  IF SumSeq(total_missing) = 0
        THEN [heap |-> h, ret |-> [kind |-> "str", str |-> NoMissingValues]]
        ELSE [heap |-> h,
              ret  |-> [kind |-> "report",
                        rows |-> [i \in DOMAIN total_missing |->
                                    [name       |-> columns(df)[i],
                                     Total      |-> total_missing[i],
                                     Percentage |->
                                        Times(TrueDiv(total_missing[i], len(df)), 100)]]]]

find_missing_values(h, dataframe) ==
    LET df == h[dataframe]
        total_missing == isnull_sum(df)
    IN  IF SumSeq(total_missing) = 0
        THEN [heap |-> h, ret |-> [kind |-> "str", str |-> NoMissingValues]]
        ELSE LET percent_missing ==
                     [i \in DOMAIN total_missing |->
                         Times(TrueDiv(total_missing[i], len(df)), 100)]
                 missing_values_df ==
                     [i \in DOMAIN total_missing |->
                         [name       |-> columns(df)[i],
                          Total      |-> total_missing[i],
                          Percentage |-> percent_missing[i]]]
             IN  [heap |-> h,
                  ret  |-> [kind |-> "report",
                            rows |-> SelectSeq(missing_values_df,
                                               LAMBDA e : e.Total > 0)]]

------------------------------------------------------------------------------
(* drop_columns_with_high_missing_values                                   *)

\* Mutant of percent_exceeds_threshold: >= in place of >.
percent_exceeds_threshold_ge(p, t) ==
    p.den # 0 /\ t.den # 0 /\ p.num * t.den >= t.num * p.den

\* percent_missing > threshold, element-wise
percent_exceeds_threshold(p, t) == FloatGt(p, t)

drop_columns_with_high_missing_values(h, dataframe, t) ==
    LET df == h[dataframe]
        total_missing == isnull_sum(df)
        percent_missing ==
            [i \in DOMAIN total_missing |->
                Times(TrueDiv(total_missing[i], len(df)), 100)]
        columns_to_drop ==
            {columns(df)[i] : i \in {j \in DOMAIN percent_missing :
                                percent_exceeds_threshold(percent_missing[j], t)}}
        d == drop(h, dataframe, columns_to_drop)
    IN  [heap |-> d.heap, ret |-> [kind |-> "frame", ref |-> d.ref]]

------------------------------------------------------------------------------
(* separate_categorical_numerical                                          *)

\* dataframe.select_dtypes(include=dtypes): a new object with the columns
\* whose dtype is listed, in the table's order
select_dtypes_include(h, ref, dtypes) ==
    LET df == h[ref]
        kept == SelectSeq(df.cols, LAMBDA c : c.dtype \in dtypes)
    IN  [heap |-> Append(h, [index |-> df.index, cols |-> kept]),
         ref  |-> Len(h) + 1]

\* dataframe.select_dtypes(exclude=dtypes)
select_dtypes_exclude(h, ref, dtypes) ==
    LET df == h[ref]
        kept == SelectSeq(df.cols, LAMBDA c : c.dtype \notin dtypes)
    IN  [heap |-> Append(h, [index |-> df.index, cols |-> kept]),
         ref  |-> Len(h) + 1]

\* Mutant of separate_categorical_numerical: the second list names 'object' only.
separate_categorical_numerical_object_only(h, dataframe) ==
    LET categorical_columns_ == select_dtypes_include(h, dataframe, {"object", "category"})
        numerical_columns == select_dtypes_exclude(categorical_columns_.heap, dataframe,
                                                   {"object"})
    IN  [heap |-> numerical_columns.heap,
         ret  |-> [kind |-> "tuple", ref |-> categorical_columns_.ref,
                   ref2 |-> numerical_columns.ref]]

separate_categorical_numerical(h, dataframe) ==
    LET categorical_columns_ == select_dtypes_include(h, dataframe, {"object", "category"})
        numerical_columns == select_dtypes_exclude(categorical_columns_.heap, dataframe,
                                                   {"object", "category"})
    IN  [heap |-> numerical_columns.heap,
         ret  |-> [kind |-> "tuple", ref |-> categorical_columns_.ref,
                   ref2 |-> numerical_columns.ref]]

------------------------------------------------------------------------------
(* label_encode_categorical_variables                                      *)

\* Mutant of copy: no copy is made, the name is bound to the caller's object.
copy_alias(h, ref) == [heap |-> h, ref |-> ref]

\* dataframe.copy(): a new object with the same content
copy(h, ref) == [heap |-> Append(h, h[ref]), ref |-> Len(h) + 1]

\* the distinct non-missing values of S in ascending order
RECURSIVE sorted(_)
sorted(S) ==
    IF S = {} THEN <<>>
    ELSE LET m == CHOOSE x \in S : \A y \in S : x <= y
         IN  <<m>> \o sorted(S \ {m})

\* Mutant of unique: descending order.
unique_descending(y) ==
    LET asc == sorted(Range(y) \ {NA})
    IN  [i \in DOMAIN asc |-> asc[Len(asc) + 1 - i]]
            \o (IF NA \in Range(y) THEN <<NA>> ELSE <<>>)

\* the encoder's classes_: the distinct values sorted, the missing marker last
unique(y) ==
    sorted(Range(y) \ {NA}) \o (IF NA \in Range(y) THEN <<NA>> ELSE <<>>)

\* Mutant of fit_transform: the encoder is fitted once and never re-fitted;
\* a value it has not seen gets the code len(classes_).
fit_transform_fit_once(label_encoder, y) ==
    LET classes == IF label_encoder.classes_ = <<>> THEN unique(y)
                   ELSE label_encoder.classes_
    IN  [label_encoder |-> [classes_ |-> classes],
         y |-> [i \in DOMAIN y |->
                  IF y[i] \in Range(classes)
                  THEN (CHOOSE k \in DOMAIN classes : classes[k] = y[i]) - 1
                  ELSE Len(classes)]]

\* label_encoder.fit_transform(y): fit (classes_ is replaced), then every
\* value becomes its zero-based position in classes_
fit_transform(label_encoder, y) ==
    LET classes == unique(y)
    IN  [label_encoder |-> [classes_ |-> classes],
         y |-> [i \in DOMAIN y |->
                  (CHOOSE k \in DOMAIN classes : classes[k] = y[i]) - 1]]

\* encoded_dataframe[column] = y, for a column the table has
setitem(h, ref, column, y) ==
    [h EXCEPT ![ref].cols =
        [i \in DOMAIN h[ref].cols |->
            IF h[ref].cols[i].name = column
            THEN [name |-> column, dtype |-> "int64", values |-> y]
            ELSE h[ref].cols[i]]]

\* the for loop over categorical_columns, with the one encoder carried along
RECURSIVE encode_loop(_, _, _, _)
encode_loop(h, encoded_dataframe, label_encoder, todo) ==
    IF todo = <<>> THEN h
    ELSE LET column == Head(todo)
             present == {i \in DOMAIN h[encoded_dataframe].cols :
                            h[encoded_dataframe].cols[i].name = column}
         IN  IF present # {}
             THEN LET c == h[encoded_dataframe].cols[CHOOSE i \in present : TRUE]
                      ft == fit_transform(label_encoder, c.values)
                  IN  encode_loop(setitem(h, encoded_dataframe, column, ft.y),
                                  encoded_dataframe, ft.label_encoder, Tail(todo))
             ELSE encode_loop(h, encoded_dataframe, label_encoder, Tail(todo))

LabelEncoder == [classes_ |-> <<>>]

label_encode_categorical_variables(h, dataframe, columns_to_encode) ==
    LET encoded_dataframe == copy(h, dataframe)
    IN  [heap |-> encode_loop(encoded_dataframe.heap, encoded_dataframe.ref,
                              LabelEncoder, columns_to_encode),
         ret  |-> [kind |-> "frame", ref |-> encoded_dataframe.ref]]

------------------------------------------------------------------------------
(* drop_highly_correlated_variables                                        *)

\* sum of x[r] * y[r] over the rows 1..k where both columns have a value
RECURSIVE SumProd(_, _, _, _, _)
SumProd(k, a, b, x, y) ==
    IF k = 0 THEN 0
    ELSE (IF a[k] # NA /\ b[k] # NA THEN x[k] * y[k] ELSE 0)
            + SumProd(k - 1, a, b, x, y)

\* Pearson's coefficient of two columns over the rows where both have a
\* value (DataFrame.corr's pairwise deletion), as cov / sqrt(varx * vary)
\* scaled by the row count; NaN when a variance is zero or no row is left.
pearson(x, y) ==
    LET one == [r \in DOMAIN x |-> 1]
        n == SumProd(Len(x), x, y, one, one)
        sx == SumProd(Len(x), x, y, x, one)
        sy == SumProd(Len(x), x, y, y, one)
        cov == n * SumProd(Len(x), x, y, x, y) - sx * sy
        varx == n * SumProd(Len(x), x, y, x, x) - sx * sx
        vary == n * SumProd(Len(x), x, y, y, y) - sy * sy
    IN  [num |-> cov, den2 |-> varx * vary]

\* dataframe.corr().abs(): the matrix of absolute coefficients, by position
corr_abs(df) ==
    [i \in DOMAIN df.cols |-> [j \in DOMAIN df.cols |->
        LET c == pearson(df.cols[i].values, df.cols[j].values)
        IN  [num |-> Abs(c.num), den2 |-> c.den2]]]

\* Mutant of ge_threshold: > in place of >=.
ge_threshold_strict(c, t) ==
    /\ c.den2 > 0
    /\ t.den > 0
    /\ (t.num < 0 \/ c.num * c.num * t.den * t.den > t.num * t.num * c.den2)

\* one cell of corr_matrix >= threshold, for an absolute coefficient c;
\* False for NaN
ge_threshold(c, t) ==
    /\ c.den2 > 0
    /\ t.den > 0
    /\ (t.num <= 0 \/ c.num * c.num * t.den * t.den >= t.num * t.num * c.den2)

\* Mutant of correlated_columns: only the columns after col are looked at.
correlated_columns_after(mask, names, col) ==
    {names[j] : j \in {k \in DOMAIN names :
        /\ \E i \in DOMAIN names : names[i] = col /\ i < k /\ mask[k][i]}}

\* mask.columns[mask[col]]: the labels of the rows where column col of mask
\* is True
correlated_columns(mask, names, col) ==
    {names[j] : j \in {k \in DOMAIN names :
        \E i \in DOMAIN names : names[i] = col /\ mask[k][i]}}

\* the loop over mask.columns, from position k on, filling high_corr_vars
RECURSIVE scan_columns(_, _, _, _)
scan_columns(mask, names, k, high_corr_vars) ==
    IF k > Len(names) THEN high_corr_vars
    ELSE LET col == names[k]
             found == {col2 \in correlated_columns(mask, names, col) : col # col2}
         IN  scan_columns(mask, names, k + 1, high_corr_vars \cup found)

drop_highly_correlated_variables(h, dataframe, t) ==
    LET df == h[dataframe]
        corr_matrix == corr_abs(df)
        mask == [i \in DOMAIN df.cols |-> [j \in DOMAIN df.cols |->
                    ge_threshold(corr_matrix[i][j], t)]]
        high_corr_vars == scan_columns(mask, columns(df), 1, {})
        reduced_dataframe == drop(h, dataframe, high_corr_vars)
    IN  [heap |-> reduced_dataframe.heap,
         ret  |-> [kind |-> "frame", ref |-> reduced_dataframe.ref]]

------------------------------------------------------------------------------
(* Inputs.                                                                 *)

\* The table of n rows whose columns are c[1], c[2], ..., each a
\* [dtype, values], named A, B, ... in order.
MakeTable(n, c) ==
    [index |-> n,
     cols  |-> [i \in DOMAIN c |-> [name   |-> ColumnNames[i],
                                    dtype  |-> c[i].dtype,
                                    values |-> c[i].values]]]

\* the columns of n rows of a dtype in dtypes with cells in vals
Columns(n, dtypes, vals) == [dtype : dtypes, values : [1..n -> vals]]

DefaultThreshold == [num |-> 7, den |-> 10]

\* spec section 8: A = [1, 2, missing, 4], B = [x, y, x, z]
ExampleMissingTable ==
    [index |-> 4,
     cols  |-> << [name |-> "A", dtype |-> "float64", values |-> <<1, 2, NA, 4>>],
                  [name |-> "B", dtype |-> "object",  values |-> <<1, 2, 1, 3>>] >>]

\* thresholds on the scale the code compares on (0.7, the default, is 0.7 percent)
MissingThresholds ==
    {DefaultThreshold} \cup {[num |-> p, den |-> 1] : p \in {0, 25, 50, 100}}

SplitDtypes == {"object", "category", "int64", "float64", "bool"}

\* a table of four rows whose columns hold three distinct values, unsorted
\* and repeated, one of them with a missing cell
ExampleEncodeTable ==
    [index |-> 4,
     cols  |-> << [name |-> "A", dtype |-> "object", values |-> <<5, 2, NA, 5>>],
                  [name |-> "B", dtype |-> "object", values |-> <<7, 5, 2, 2>>] >>]

\* the names a caller may list: the names a table can have and one no table has
EncodeNames == {ColumnNames[i] : i \in 1..MaxColsEncode} \cup {"Z"}

EncodeLists == UNION {[1..n -> EncodeNames] : n \in 0..MaxListEncode}

\* Numeric columns of four rows.  With <<1, 2, 3, 4>> the coefficients are:
\* 1 (its double, spec section 8's column B), -1 (its reverse), 0.8 (the
\* fourth), undefined (the constant column); the last column has a missing
\* cell, and over the rows it shares its coefficient is about 0.98 with the
\* first column and 0.65 with the fourth.
CorrColumnPool ==
    { <<1, 2, 3, 4>>, <<2, 4, 6, 8>>, <<4, 3, 2, 1>>, <<1, 3, 2, 4>>,
      <<1, 1, 1, 1>>, <<NA, 1, 2, 4>> }

\* spec section 8: A = [1, 2, 3, 4], B = [2, 4, 6, 8]
ExampleCorrTable ==
    [index |-> 4,
     cols  |-> << [name |-> "A", dtype |-> "float64", values |-> <<1, 2, 3, 4>>],
                  [name |-> "B", dtype |-> "float64", values |-> <<2, 4, 6, 8>>] >>]

CorrThresholds ==
    {DefaultThreshold} \cup {[num |-> p, den |-> 10] : p \in {0, 8}}

NoRet == [kind |-> "none"]

\* the state before the call: the caller holds table t
InitWith(t) ==
    /\ heap = <<t>>
    /\ fn = "none"
    /\ threshold = DefaultThreshold
    /\ categorical_columns = <<>>
    /\ ret = NoRet

------------------------------------------------------------------------------
(* Actions: one call of one function on the caller's table heap[1].        *)

FindMissingValues ==
    /\ fn = "none"
    /\ LET r == find_missing_values(heap, 1)
       IN  /\ heap' = r.heap
           /\ ret' = r.ret
    /\ fn' = "find_missing_values"
    /\ UNCHANGED <<threshold, categorical_columns>>

DropColumnsWithHighMissingValues ==
    /\ fn = "none"
    /\ \E t \in MissingThresholds :
          LET r == drop_columns_with_high_missing_values(heap, 1, t)
          IN  /\ heap' = r.heap
              /\ ret' = r.ret
              /\ threshold' = t
    /\ fn' = "drop_columns_with_high_missing_values"
    /\ UNCHANGED categorical_columns

InitMissing ==
    \/ \E n \in 0..MaxRowsMissing, k \in 0..MaxColsMissing :
          \E c \in [1..k -> Columns(n, {"float64"}, {NA, 1})] :
              InitWith(MakeTable(n, c))
    \/ InitWith(ExampleMissingTable)

NextMissing == FindMissingValues \/ DropColumnsWithHighMissingValues

SpecMissing == InitMissing /\ [][NextMissing]_vars

SeparateCategoricalNumerical ==
    /\ fn = "none"
    /\ LET r == separate_categorical_numerical(heap, 1)
       IN  /\ heap' = r.heap
           /\ ret' = r.ret
    /\ fn' = "separate_categorical_numerical"
    /\ UNCHANGED <<threshold, categorical_columns>>

InitSplit ==
    \E n \in 0..1, k \in 0..MaxColsSplit :
        \E c \in [1..k -> Columns(n, SplitDtypes, {NA, 1})] :
            InitWith(MakeTable(n, c))

NextSplit == SeparateCategoricalNumerical

SpecSplit == InitSplit /\ [][NextSplit]_vars

LabelEncodeCategoricalVariables ==
    /\ fn = "none"
    /\ \E L \in EncodeLists :
          LET r == label_encode_categorical_variables(heap, 1, L)
          IN  /\ heap' = r.heap
              /\ ret' = r.ret
              /\ categorical_columns' = L
    /\ fn' = "label_encode_categorical_variables"
    /\ UNCHANGED threshold

InitEncode ==
    \/ \E n \in 0..2, k \in 0..MaxColsEncode :
          \E c \in [1..k -> Columns(n, {"object"}, {NA, 2, 5})] :
              InitWith(MakeTable(n, c))
    \/ InitWith(ExampleEncodeTable)

NextEncode == LabelEncodeCategoricalVariables

SpecEncode == InitEncode /\ [][NextEncode]_vars

DropHighlyCorrelatedVariables ==
    /\ fn = "none"
    /\ \E t \in CorrThresholds :
          LET r == drop_highly_correlated_variables(heap, 1, t)
          IN  /\ heap' = r.heap
              /\ ret' = r.ret
              /\ threshold' = t
    /\ fn' = "drop_highly_correlated_variables"
    /\ UNCHANGED categorical_columns

InitCorr ==
    \E k \in 0..MaxColsCorr :
        \E c \in [1..k -> [dtype : {"float64"}, values : CorrColumnPool]] :
            InitWith(MakeTable(4, c))

NextCorr == DropHighlyCorrelatedVariables

SpecCorr == InitCorr /\ [][NextCorr]_vars

------------------------------------------------------------------------------
(* Properties.  In is the caller's table, Out the returned table.          *)

In == heap[1]
Out == heap[ret.ref]

MissingCells(c) == {r \in DOMAIN c.values : c.values[r] = NA}
ColumnNamesOf(df) == {df.cols[i].name : i \in DOMAIN df.cols}
ColumnNamed(df, a) == df.cols[CHOOSE i \in DOMAIN df.cols : df.cols[i].name = a]

\* the columns of df whose name is in names, in df's order
Restrict(df, names) == SelectSeq(df.cols, LAMBDA c : c.name \in names)

\* missing count / row count x 100 of column c of df is > t (rows >= 1)
PercentAbove(df, c, t) ==
    Cardinality(MissingCells(c)) * 100 * t.den > t.num * df.index

\* C3: on a table with at least one row, drop_columns_with_high_missing_values
\* removes exactly the columns whose missing percentage (0-100 scale) is > t;
\* the retained columns keep their order and data, the row count is kept.
C3_DropsExactlyAboveThreshold ==
    (fn = "drop_columns_with_high_missing_values" /\ In.index >= 1) =>
        /\ ret.kind = "frame"
        /\ Out.index = In.index
        /\ Out.cols = SelectSeq(In.cols, LAMBDA c : ~PercentAbove(In, c, threshold))
        /\ \A i \in DOMAIN Out.cols : ~PercentAbove(In, Out.cols[i], threshold)
        /\ \A i \in DOMAIN In.cols :
              In.cols[i].name \notin ColumnNamesOf(Out)
                  => PercentAbove(In, In.cols[i], threshold)
        /\ (threshold = DefaultThreshold =>
               \A i \in DOMAIN In.cols :
                   Cardinality(MissingCells(In.cols[i])) * 1000 > 7 * In.index
                       => In.cols[i].name \notin ColumnNamesOf(Out))

\* C3 witness: with the default 0.7 a column with 1 of 2 cells missing (50
\* percent, below 70) is dropped while a complete column is retained.
C3_Witness ==
    /\ fn = "drop_columns_with_high_missing_values"
    /\ threshold = DefaultThreshold
    /\ In.index = 2
    /\ Len(In.cols) = 2
    /\ Cardinality(MissingCells(In.cols[1])) = 1
    /\ Len(Out.cols) = 1
    /\ Out.cols[1] = In.cols[2]

\* C4: find_missing_values returns the "no missing values" string iff no cell
\* of the table is the missing marker (zero rows, zero columns included).
C4_SentinelIffNoMissing ==
    fn = "find_missing_values" =>
        ((ret.kind = "str" /\ ret.str = NoMissingValues)
            <=> \A i \in DOMAIN In.cols : MissingCells(In.cols[i]) = {})

\* C4 witness: the sentinel is returned for a table of two columns and at
\* least two rows without a missing cell.
C4_Witness ==
    /\ fn = "find_missing_values"
    /\ ret.kind = "str"
    /\ In.index >= 2
    /\ Len(In.cols) >= 2

\* C5: with at least one missing cell the report lists exactly the columns
\* with missing count > 0, in the table's column order, each with Total = its
\* missing count and Percentage = count / rows x 100; the example table
\* gives exactly {A: (1, 25.0)}.
C5_ReportRows ==
    (fn = "find_missing_values"
        /\ \E i \in DOMAIN In.cols : MissingCells(In.cols[i]) # {}) =>
        /\ ret.kind = "report"
        /\ LET hit == SelectSeq(In.cols, LAMBDA c : MissingCells(c) # {})
           IN  /\ Len(ret.rows) = Len(hit)
               /\ \A k \in DOMAIN hit :
                     /\ ret.rows[k].name = hit[k].name
                     /\ ret.rows[k].Total = Cardinality(MissingCells(hit[k]))
                     /\ ret.rows[k].Percentage.den > 0
                     /\ ret.rows[k].Percentage.num * In.index
                           = ret.rows[k].Total * 100 * ret.rows[k].Percentage.den
        /\ (In = ExampleMissingTable =>
               ret.rows = << [name |-> "A", Total |-> 1,
                              Percentage |-> [num |-> 25, den |-> 1]] >>)

\* C5 witness: the report of the example table.
C5_Witness ==
    /\ fn = "find_missing_values"
    /\ In = ExampleMissingTable
    /\ ret.kind = "report"
    /\ Len(ret.rows) = 1

\* the order label encoding sorts by: ascending, the missing marker last
Before(w, v) == w # v /\ (v = NA \/ (w # NA /\ w < v))

\* zero-based rank of v among the distinct values of vals
Rank(vals, v) == Cardinality({w \in Range(vals) : Before(w, v)})

Listed == Range(categorical_columns)

\* C6: label_encode_categorical_variables replaces every value of every
\* column that is listed and present by its zero-based rank among the
\* column's distinct values in sorted order; so equal values get equal codes,
\* distinct values distinct codes, and the codes of a column with k distinct
\* values are exactly 0..k-1, for every listed column.
C6_CodesAreRanks ==
    fn = "label_encode_categorical_variables" =>
        \A i \in DOMAIN In.cols :
            In.cols[i].name \in Listed =>
                LET x == In.cols[i].values
                    y == ColumnNamed(Out, In.cols[i].name).values
                IN  /\ DOMAIN y = DOMAIN x
                    /\ \A r \in DOMAIN x : y[r] = Rank(x, x[r])
                    /\ \A r, q \in DOMAIN x : (x[r] = x[q]) <=> (y[r] = y[q])
                    /\ Range(y) = 0..(Cardinality(Range(x)) - 1)

\* C6 witness: two different listed columns, both present, with different
\* sets of values, were encoded by the one encoder.
C6_Witness ==
    /\ fn = "label_encode_categorical_variables"
    /\ Len(In.cols) = 2
    /\ categorical_columns = <<"A", "B">>
    /\ Range(In.cols[1].values) = {2, 5}
    /\ Range(In.cols[2].values) = {5, NA}
    /\ Out.cols[1].values # In.cols[1].values
    /\ Out.cols[2].values # In.cols[2].values

\* one call of label_encode_categorical_variables, before and after
C7_FrameStep ==
    (fn = "none" /\ fn' = "label_encode_categorical_variables") =>
        /\ heap'[1] = heap[1]
        /\ ret'.kind = "frame"
        /\ ret'.ref # 1
        /\ LET out == heap'[ret'.ref]
               in == heap[1]
           IN  /\ out.index = in.index
               /\ Len(out.cols) = Len(in.cols)
               /\ columns(out) = columns(in)
               /\ \A i \in DOMAIN in.cols :
                     /\ Len(out.cols[i].values) = in.index
                     /\ in.cols[i].name \notin Range(categorical_columns')
                           => out.cols[i] = in.cols[i]

\* C7: a call of label_encode_categorical_variables changes only the values
\* of columns both listed and present: an absent name is skipped and adds no
\* column, unlisted columns are identical in the result, row count, column
\* count and column order are those of the input, and the caller's table is
\* the same after the call as before.
C7_Frame == [][C7_FrameStep]_vars

\* C7 witness: a call that listed an absent name, a present one, and left
\* another column unlisted.
C7_Witness ==
    /\ fn = "label_encode_categorical_variables"
    /\ categorical_columns = <<"Z", "A">>
    /\ Len(In.cols) = 2
    /\ In.index = 2
    /\ Out.cols[1].values # In.cols[1].values
    /\ Out.cols[2] = In.cols[2]

\* C8: encoding the encoded table again with the same list gives the encoded
\* table back: equal codes stay equal, different codes stay different, and
\* no code is renumbered, also when the list names a column twice.
C8_Idempotent ==
    fn = "label_encode_categorical_variables" =>
        LET second == label_encode_categorical_variables(heap, ret.ref,
                                                         categorical_columns)
            again == second.heap[second.ret.ref]
        IN  /\ again = Out
            /\ \A i \in DOMAIN Out.cols : \A r, q \in DOMAIN Out.cols[i].values :
                  (Out.cols[i].values[r] = Out.cols[i].values[q])
                      <=> (again.cols[i].values[r] = again.cols[i].values[q])

\* C8 witness: a list naming one present column twice, the column holding
\* two different values that the first call recoded.
C8_Witness ==
    /\ fn = "label_encode_categorical_variables"
    /\ categorical_columns = <<"A", "A">>
    /\ Len(In.cols) >= 1
    /\ Range(In.cols[1].values) = {5, NA}
    /\ Range(Out.cols[1].values) = {0, 1}

Cat == heap[ret.ref]
Num == heap[ret.ref2]

\* C9: the two outputs of separate_categorical_numerical partition the
\* table's columns: a column is in the first iff its dtype is object or
\* category and in the second otherwise, no column is in both or in neither,
\* each output keeps the table's column order and data, and a side with no
\* column is a table without columns.
C9_Partition ==
    fn = "separate_categorical_numerical" =>
        /\ ret.kind = "tuple"
        /\ ColumnNamesOf(Cat) \cup ColumnNamesOf(Num) = ColumnNamesOf(In)
        /\ ColumnNamesOf(Cat) \cap ColumnNamesOf(Num) = {}
        /\ Len(Cat.cols) + Len(Num.cols) = Len(In.cols)
        /\ \A i \in DOMAIN In.cols :
              /\ In.cols[i].name \in ColumnNamesOf(Cat)
                    <=> In.cols[i].dtype \in {"object", "category"}
              /\ In.cols[i].name \in ColumnNamesOf(Num)
                    <=> In.cols[i].dtype \notin {"object", "category"}
        /\ Cat.cols = Restrict(In, ColumnNamesOf(Cat))
        /\ Num.cols = Restrict(In, ColumnNamesOf(Num))
        /\ Cat.index = In.index
        /\ Num.index = In.index

\* C9 witness: a table with a category column between two numerical ones is
\* split, and so is a table with no categorical column at all.
C9_Witness ==
    /\ fn = "separate_categorical_numerical"
    /\ Len(In.cols) = 3
    /\ In.cols[1].dtype = "int64"
    /\ In.cols[2].dtype = "category"
    /\ In.cols[3].dtype = "float64"
    /\ columns(Cat) = <<"B">>
    /\ columns(Num) = <<"A", "C">>

\* the coefficient of columns i and j of In is defined
CorrDefined(i, j) == pearson(In.cols[i].values, In.cols[j].values).den2 > 0

\* |coefficient| of columns i and j of In against the threshold, exactly:
\* cov^2 / (varx * vary) against t^2, for t >= 0
CorrSquaredTimes(i, j) ==
    LET c == pearson(In.cols[i].values, In.cols[j].values)
    IN  c.num * c.num * threshold.den * threshold.den

ThresholdSquaredTimes(i, j) ==
    threshold.num * threshold.num
        * pearson(In.cols[i].values, In.cols[j].values).den2

AtOrAbove(i, j) ==
    CorrDefined(i, j) /\ CorrSquaredTimes(i, j) >= ThresholdSquaredTimes(i, j)

StrictlyBelow(i, j) ==
    CorrDefined(i, j) /\ CorrSquaredTimes(i, j) < ThresholdSquaredTimes(i, j)

Retained(i) == In.cols[i].name \in ColumnNamesOf(Out)

\* C1: for every pair of distinct columns with absolute correlation >= t the
\* earlier column is in the result and the later one is not; for
\* A = [1, 2, 3, 4], B = [2, 4, 6, 8], t = 0.7 the result is column A alone.
C1_EarlierSurvives ==
    fn = "drop_highly_correlated_variables" =>
        /\ \A i, j \in DOMAIN In.cols :
              (i < j /\ AtOrAbove(i, j)) => (Retained(i) /\ ~Retained(j))
        /\ ((In = ExampleCorrTable /\ threshold = DefaultThreshold)
               => columns(Out) = <<"A">>)

\* C2 as stated: every two distinct retained columns have an absolute
\* correlation strictly below t.
C2_RetainedStrictlyBelow ==
    fn = "drop_highly_correlated_variables" =>
        \A i, j \in DOMAIN In.cols :
            (i # j /\ Retained(i) /\ Retained(j)) => StrictlyBelow(i, j)

\* C2 (amended): no two retained columns have an absolute correlation >= t:
\* the correlation of every two retained columns is strictly below t or
\* undefined (NaN).
C2_NoRetainedPairAtOrAbove ==
    fn = "drop_highly_correlated_variables" =>
        \A i, j \in DOMAIN In.cols :
            (i # j /\ Retained(i) /\ Retained(j)) =>
                (~AtOrAbove(i, j) /\ (StrictlyBelow(i, j) \/ ~CorrDefined(i, j)))

\* C2 witness: with the default 0.7, three columns are all retained, two of
\* them with a defined, non-zero correlation below the threshold.
C2_Witness ==
    /\ fn = "drop_highly_correlated_variables"
    /\ threshold = DefaultThreshold
    /\ Len(In.cols) = 3
    /\ Len(Out.cols) = 3
    /\ \E i, j \in DOMAIN In.cols :
          /\ i # j
          /\ Retained(i) /\ Retained(j)
          /\ StrictlyBelow(i, j)
          /\ CorrSquaredTimes(i, j) > 0

\* the columns of df in the order p, a permutation of the positions
Permuted(df, p) ==
    [index |-> df.index, cols |-> [i \in DOMAIN df.cols |-> df.cols[p[i]]]]

ColumnOrders(n) == {p \in [1..n -> 1..n] : \A i, j \in 1..n : p[i] = p[j] => i = j}

RetainedNamesOf(df, t) ==
    LET r == drop_highly_correlated_variables(<<df>>, 1, t)
    IN  ColumnNamesOf(r.heap[r.ret.ref])

\* C10: drop_highly_correlated_variables drops a column iff some other
\* column, before or after it, has an absolute correlation >= t with it, an
\* undefined correlation never counting; so both members of an
\* above-threshold pair are dropped, a column without such a partner is kept,
\* and the retained set is the same for every order of the columns.
C10_DroppedIffSomePartner ==
    fn = "drop_highly_correlated_variables" =>
        /\ \A j \in DOMAIN In.cols :
              ~Retained(j) <=> \E i \in DOMAIN In.cols : i # j /\ AtOrAbove(i, j)
        /\ \A i, j \in DOMAIN In.cols :
              (i # j /\ AtOrAbove(i, j)) => (~Retained(i) /\ ~Retained(j))
        /\ Out.cols = SelectSeq(In.cols, LAMBDA c : c.name \in ColumnNamesOf(Out))
        /\ \A p \in ColumnOrders(Len(In.cols)) :
              RetainedNamesOf(Permuted(In, p), threshold) = ColumnNamesOf(Out)

\* C10 witness: the first and the last of three columns are above the
\* threshold with each other and both dropped; the constant column between
\* them, whose correlations are undefined, is kept.
C10_Witness ==
    /\ fn = "drop_highly_correlated_variables"
    /\ threshold = DefaultThreshold
    /\ Len(In.cols) = 3
    /\ AtOrAbove(1, 3)
    /\ ~CorrDefined(1, 2)
    /\ columns(Out) = <<"B">>

====
